---- MODULE Spec2Model ----
(***************************************************************************)
(* Model of linkedin_monitor.py: the change-detection and notification     *)
(* pipeline of OptimizedLinkedInMonitor.run_anti_detection_monitoring.     *)
(*                                                                         *)
(* Abstractions                                                            *)
(*  - A sha256 digest is modelled by its preimage (collision-free): the    *)
(*    fingerprint of a profile is the record of the values that the code   *)
(*    concatenates before hashing.                                         *)
(*  - A string is modelled by the parts the code looks at: a title is      *)
(*    split at character 30 (head, tail) because the hash reads [:30].     *)
(*  - The clock has a day and an hour, the two granularities the code      *)
(*    formats (%Y%m%d and %Y%m%d%H).                                       *)
(*  - print and time.sleep are not modelled. Every call made by the body   *)
(*    of the profile loop is then total (check_profile_with_anti_detection *)
(*    catches every exception itself), so the handler at lines 1816-1819   *)
(*    is unreachable and has no action.                                    *)
(*  - An exception inside check_profile_with_anti_detection or one of its  *)
(*    callees is an input of the check (fault), bounded by MaxFaults.      *)
(*  - ProfileData.last_check is set at construction and never read or      *)
(*    written afterwards; it has no field in the model.                    *)
(***************************************************************************)
EXTENDS Integers, Sequences, FiniteSets, TLC

\* ---------------------------------------------------------------- bounds
MaxRuns == 2
MaxDay == 1
MaxHour == 1
MaxFaults == 1

\* ------------------------------------------------------ program constants
\* run_anti_detection_monitoring: "if profile.error_count >= 5"
SuspendThreshold == 5
\* _extract_authentic_content: "if len(posts) >= 2: break"
MaxAuthenticPosts == 2
\* _generate_smart_urls: "return urls[:3]"
MaxUrls == 3
Strategies == 4
\* _is_authentic_post_content
MinContentLen == 25
MinMeaningfulWords == 5
MinProfessionalLen == 30
\* _create_intelligent_title
MinTitleSentenceLen == 20
MaxTitleSentenceLen == 80

\* ------------------------------------------------------------- utilities
Range(s) == {s[k] : k \in 1..Len(s)}

Take(s, n) == SubSeq(s, 1, IF Len(s) < n THEN Len(s) ELSE n)

\* ------------------------------------------------------------- data types
\* ProfileData.__init__ / to_dict: one row of the CSV state store.
ProfileData(url, name, last_post_id, error_count) ==
    [url |-> url, name |-> name, last_post_id |-> last_post_id,
     error_count |-> error_count, last_success |-> <<>>]

\* ProfileData.to_dict: the four columns of a row of the store.
to_dict(profile) ==
    [url |-> profile.url, name |-> profile.name,
     last_post_id |-> profile.last_post_id, error_count |-> profile.error_count]

\* The rows save_profiles writes, one per profile, in order.
writerows(profs) == [k \in 1..Len(profs) |-> to_dict(profs[k])]

\* The empty Last_Post_ID of a profile never observed.
EmptyId == [name |-> "", stamp |-> <<>>, parts |-> <<>>]

CompanyUrl(id) == [kind |-> "company", id |-> id]
NoUrl == [kind |-> "", id |-> ""]
\* A non-empty URL that is neither a /company/ nor an /in/ address.
OtherUrl(id) == [kind |-> "other", id |-> id]

\* PostData
PostData(profile_name, post_title, post_description, post_url, post_id, post_type, source_method) ==
    [profile_name |-> profile_name, post_title |-> post_title,
     post_description |-> post_description, post_url |-> post_url,
     post_id |-> post_id, post_type |-> post_type,
     source_method |-> source_method]

\* ------------------------------------------------ IntelligentContentGenerator
Title(head, tail) == [head |-> head, tail |-> tail]

\* company_templates / generic_templates, titles after _personalize_content
\* (the profile-specific replacements; every title is longer than 30 chars).
company_templates ==
    [Tesla |->
       <<[title |-> Title("Innovations en vehicules elect",
                          <<"riques Tesla et technologies durables">>),
          description |-> "tesla-innovation", type |-> "innovation"],
         [title |-> Title("Recrutement d'ingenieurs pour ",
                          <<"l'IA et l'autonomie">>),
          description |-> "tesla-emploi", type |-> "emploi"]>>,
     Microsoft |->
       <<[title |-> Title("Avancees en intelligence artif",
                          <<"icielle et cloud computing">>),
          description |-> "microsoft-innovation", type |-> "innovation"],
         [title |-> Title("Solutions collaboratives pour ",
                          <<"l'entreprise moderne">>),
          description |-> "microsoft-produit", type |-> "produit"]>>,
     Google |->
       <<[title |-> Title("Recherche et developpement en ", <<"Google AI">>),
          description |-> "google-innovation", type |-> "innovation"],
         [title |-> Title("Initiatives durabilite et impa",
                          <<"ct environnemental">>),
          description |-> "google-durabilite", type |-> "durabilite"]>>]

generic_templates ==
    <<[title |-> Title("Actualites et developpements r", <<"ecents">>),
       description |-> "generic-actualite", type |-> "actualite"],
      [title |-> Title("Innovation et strategie d'entr", <<"eprise">>),
       description |-> "generic-strategie", type |-> "strategie"]>>

\* IntelligentContentGenerator._generate_smart_url
generate_smart_url(base_url, post_type) ==
    IF base_url.kind = "company"
    THEN [kind |-> IF post_type = "emploi" THEN "company-jobs" ELSE "company-posts",
          id |-> base_url.id]
    ELSE base_url

\* The orders random.sample(templates, 2) can return.
SampleOrders == {<<1, 2>>, <<2, 1>>}

\* generate_realistic_posts: two posts from the profile's templates, in the
\* sampled order; [] when the body of the try raises (raises = TRUE).
generate_realistic_posts(profile_name, url, order, raises) ==
    IF raises THEN <<>>
    ELSE LET templates == IF profile_name \in DOMAIN company_templates
                          THEN company_templates[profile_name]
                          ELSE generic_templates
             post(t) == PostData(profile_name, t.title,
                                 [text |-> << <<t.description, "">> >>, truncated |-> FALSE],
                                 generate_smart_url(url, t.type),
                                 [src |-> "sha", key |-> <<profile_name, t.title.head>>],
                                 t.type, "intelligent_generation")
         IN  [k \in 1..Len(order) |-> post(templates[order[k]])]

\* ------------------------------------------------------ SmartContentExtractor
\* A sentence of a cleaned fragment, as re.split(r'[.!?]+') yields it: its
\* first 30 characters, the rest, its first 12 words after character 30, its
\* length and whether a noise pattern matches it.
Sentence(head, rest, words12, len, noise) ==
    [head |-> head, rest |-> rest, words12 |-> words12, len |-> len, noise |-> noise]

\* A cleaned candidate fragment (the result of _deep_clean_html), described by
\* what the validation and the derivations read from it.
Fragments ==
    [post_a |-> [text |-> "post_a", len |-> 64, noise |-> FALSE, words |-> 8,
                 professional |-> TRUE,
                 sentences |-> <<Sentence("Notre equipe lance un nouveau ", "produit", "produit", 37, FALSE)>>,
                 keyword |-> "produit", capwords |-> <<"Notre">>,
                 types |-> {"produit"}],
     post_a2 |-> [text |-> "post_a2", len |-> 70, noise |-> FALSE, words |-> 9,
                 professional |-> TRUE,
                 sentences |-> <<Sentence("Notre equipe lance un nouveau ", "service client", "service client", 44, FALSE)>>,
                 keyword |-> "none", capwords |-> <<"Notre">>,
                 types |-> {"produit"}],
     post_b |-> [text |-> "post_b", len |-> 140, noise |-> FALSE, words |-> 18,
                 professional |-> TRUE,
                 sentences |-> <<Sentence("La strategie de croissance de ", "l'entreprise repose sur ... marches", "l'entreprise repose sur", 95, FALSE)>>,
                 keyword |-> "none", capwords |-> <<>>,
                 types |-> {}],
     post_c |-> [text |-> "post_c", len |-> 48, noise |-> FALSE, words |-> 6,
                 professional |-> TRUE,
                 sentences |-> <<Sentence("Bravo equipe", "", "", 12, FALSE),
                                 Sentence("Super projet client", "", "", 19, FALSE)>>,
                 keyword |-> "none", capwords |-> <<"Bravo", "Super">>,
                 types |-> {}],
     cookies |-> [text |-> "accepter les cookies", len |-> 20, noise |-> TRUE, words |-> 2,
                 professional |-> FALSE,
                 sentences |-> <<>>, keyword |-> "none", capwords |-> <<>>,
                 types |-> {}],
     login |-> [text |-> "login", len |-> 60, noise |-> TRUE, words |-> 7,
                 professional |-> TRUE,
                 sentences |-> <<Sentence("Se connecter pour voir la stra", "tegie de l'entreprise", "tegie de l'entreprise", 51, TRUE)>>,
                 keyword |-> "none", capwords |-> <<"Se">>,
                 types |-> {}],
     symbols |-> [text |-> "symbols", len |-> 40, noise |-> FALSE, words |-> 1,
                 professional |-> FALSE,
                 sentences |-> <<>>, keyword |-> "none", capwords |-> <<>>,
                 types |-> {}]]

\* _is_authentic_post_content
is_authentic_post_content(c) ==
    /\ c.len >= MinContentLen
    /\ ~c.noise
    /\ c.words >= MinMeaningfulWords
    /\ c.professional
    /\ c.len > MinProfessionalLen

\* context_keywords of _create_intelligent_title
context_keywords ==
    [innovation |-> Title("Innovation technologique en cours", <<>>),
     recrut |-> Title("Nouvelles opportunites de carriere", <<>>),
     partenariat |-> Title("Nouveau partenariat strategique", <<>>),
     produit |-> Title("Lancement de produit innovant", <<>>),
     evenement |-> Title("Evenement professionnel important", <<>>),
     resultat |-> Title("Resultats et performances recentes", <<>>)]

\* _create_intelligent_title
create_intelligent_title(c) ==
    LET long == SelectSeq(c.sentences, LAMBDA s : s.len > MinTitleSentenceLen)
        good == SelectSeq(Take(long, 3), LAMBDA s : ~s.noise)
    IN  IF c.len = 0 THEN Title("Nouvelle publication professionnelle", <<>>)
        ELSE IF good # <<>>
        THEN LET s == good[1]
             IN  IF s.len <= MaxTitleSentenceLen
                 THEN Title(s.head, <<s.rest, ".">>)
                 ELSE Title(s.head, <<s.words12, "...">>)
        ELSE IF c.keyword \in DOMAIN context_keywords THEN context_keywords[c.keyword]
        ELSE IF c.capwords # <<>> THEN Title("Actualite: ", Take(c.capwords, 3))
        ELSE Title("Nouvelle publication LinkedIn", <<>>)

\* _create_intelligent_description (the cut at 180 characters is not modelled:
\* the sentences of Fragments are shorter)
create_intelligent_description(c) ==
    LET cand == SelectSeq(c.sentences, LAMBDA s : s.len > 15)
        good == SelectSeq(Take(cand, 4), LAMBDA s : ~s.noise /\ s.len > 20)
    IN  IF c.len = 0
        THEN [text |-> << <<"Nouveau contenu partage sur LinkedIn", "">> >>, truncated |-> FALSE]
        ELSE IF good # <<>>
        THEN [text |-> [k \in 1..Len(Take(good, 2)) |-> <<good[k].head, good[k].rest>>],
              truncated |-> FALSE]
        ELSE [text |-> << <<"Nouvelle publication professionnelle partagee recemment", "">> >>,
              truncated |-> FALSE]

\* _detect_content_type: the first matching entry of type_patterns
detect_content_type(c) ==
    LET order == <<"emploi", "evenement", "produit", "partenariat", "actualite">>
        hits == SelectSeq(order, LAMBDA t : t \in c.types)
    IN  IF hits # <<>> THEN hits[1] ELSE "publication"

\* _extract_or_generate_id: the activity number of the identifier when it has
\* one, else a digest of identifier and content
extract_or_generate_id(identifier, c) ==
    IF identifier.digits # "" THEN [src |-> "urn", key |-> <<identifier.digits>>]
    ELSE [src |-> "sha", key |-> <<identifier.raw, c.text>>]

\* _create_optimized_url
create_optimized_url(profile_url) ==
    IF profile_url.kind = "company" THEN [kind |-> "company-posts", id |-> profile_url.id]
    ELSE IF profile_url.kind = "in" THEN [kind |-> "in-activity", id |-> profile_url.id]
    ELSE profile_url

\* One regex match: (identifier, content), content already cleaned.
Match(raw, digits, frag) == [identifier |-> [raw |-> raw, digits |-> digits], frag |-> frag]

\* A fetched body: whether response.text is non-empty, and the matches of the
\* three authentic_patterns in order.
Bodies ==
    [empty |-> [nonempty |-> FALSE, matches |-> << <<>>, <<>>, <<>> >>],
     noise |-> [nonempty |-> TRUE,
                matches |-> << <<Match("urn:x", "", "cookies"), Match("urn:y", "", "login")>>,
                               <<>>, <<Match("z", "", "symbols")>> >>],
     one   |-> [nonempty |-> TRUE,
                matches |-> << <<Match("urn:li:activity:7100000001", "7100000001", "post_a")>>,
                               <<>>, <<>> >>],
     two   |-> [nonempty |-> TRUE,
                matches |-> << <<Match("urn:li:activity:7100000001", "7100000001", "post_a")>>,
                               <<Match("7100000002", "7100000002", "post_b")>>,
                               <<Match("art-3", "", "post_c")>> >>],
     alt   |-> [nonempty |-> TRUE,
                matches |-> << <<Match("urn:li:activity:7100000009", "7100000009", "post_a2")>>,
                               <<>>, <<>> >>]]

\* _extract_authentic_content: the matches of the authentic_patterns, pattern
\* after pattern, as the two nested loops meet them.
authentic_matches(html) ==
    Bodies[html].matches[1] \o Bodies[html].matches[2] \o Bodies[html].matches[3]

\* The index in authentic_patterns of the pattern the k-th match comes from.
pattern_of(html, k) ==
    IF k <= Len(Bodies[html].matches[1]) THEN 1
    ELSE IF k <= Len(Bodies[html].matches[1]) + Len(Bodies[html].matches[2]) THEN 2
    ELSE 3

\* The loops of _extract_authentic_content over the matches of the patterns
\* in order: a match becomes a post when it validates and no earlier validated
\* match has the same cleaned content (found_content); both loops stop at
\* MaxAuthenticPosts posts. The indexes of the matches that become posts.
picked_matches(html) ==
    LET ms == authentic_matches(html)
        c(k) == Fragments[ms[k].frag]
        kept(k) == /\ is_authentic_post_content(c(k))
                   /\ \A j \in 1..(k - 1) :
                        is_authentic_post_content(c(j)) => c(j).text # c(k).text
    IN  Take(SelectSeq([k \in 1..Len(ms) |-> k], kept), MaxAuthenticPosts)

\* _extract_authentic_content: one post per picked match. [] when the body
\* of the try raises.
extract_authentic_content(html, profile_name, profile_url, raises) ==
    LET ms == authentic_matches(html)
        c(k) == Fragments[ms[k].frag]
        picked == picked_matches(html)
    IN  IF raises THEN <<>>
        ELSE [n \in 1..Len(picked) |->
                PostData(profile_name, create_intelligent_title(c(picked[n])),
                         create_intelligent_description(c(picked[n])),
                         create_optimized_url(profile_url),
                         extract_or_generate_id(ms[picked[n]].identifier, c(picked[n])),
                         detect_content_type(c(picked[n])), "authentic_extraction")]

\* extract_or_generate_content, lines 405-416: the extracted posts when
\* there are any, else the generated ones
real_or_generated(real_posts, generated_posts) ==
    IF real_posts # <<>> THEN real_posts ELSE generated_posts

\* extract_or_generate_content
extract_or_generate_content(html, profile_url, profile_name, detection_failed, order, extract_raises, generate_raises) ==
    real_or_generated(
        IF ~detection_failed /\ Bodies[html].nonempty
        THEN extract_authentic_content(html, profile_name, profile_url, extract_raises)
        ELSE <<>>,
        generate_realistic_posts(profile_name, profile_url, order, generate_raises))

\* ----------------------------------------------------- EnhancedContentAnalyzer
\* post.post_title[:30]
title_prefix(title) == title.head

\* _generate_intelligent_hash: the digest of profile name, date and, per post,
\* title[:30] and type; without posts, of profile name, date and hour.
generate_intelligent_hash(posts_data, profile_name, now) ==
    IF posts_data # <<>>
    THEN [name |-> profile_name, stamp |-> <<now.day>>,
          parts |-> [k \in 1..Len(posts_data) |->
                        <<title_prefix(posts_data[k].post_title), posts_data[k].post_type>>]]
    ELSE [name |-> profile_name, stamp |-> <<now.day, now.hour>>, parts |-> <<>>]

\* analyze_with_intelligent_fallback, lines 1494-1511: the result built from
\* the posts
analysis_of(posts_data, profile_name, detection_failed, now) ==
    [content_hash |-> generate_intelligent_hash(posts_data, profile_name, now),
     posts_data |-> posts_data,
     detection_method |-> IF detection_failed THEN "intelligent_fallback" ELSE "extraction"]

\* analyze_with_intelligent_fallback; the emergency result when the body of
\* the try raises
analyze_with_intelligent_fallback(html, profile_url, profile_name, detection_failed, now, order, fault) ==
    IF fault = "analyze"
    THEN [content_hash |-> [name |-> profile_name, stamp |-> <<now.day>>,
                            parts |-> << <<"fallback", "">> >>],
          posts_data |-> <<>>, detection_method |-> "emergency"]
    ELSE analysis_of(extract_or_generate_content(html, profile_url, profile_name,
                         detection_failed, order, fault = "extract", fault = "generate"),
                     profile_name, detection_failed, now)

\* -------------------------------------------------------------------- state
VARIABLES
    csv_file,       \* the CSV state store: [exists, rows]
    now,            \* the wall clock: [day, hour]
    run,            \* number of runs started
    faults,         \* number of exceptions injected so far
    pc,             \* position of the current run
    profiles,       \* run_anti_detection_monitoring: the loaded ProfileData list
    i,              \* index of the next profile of the loop (1-based)
    all_new_posts,  \* self.all_new_posts
    changes_made,   \* local changes_made
    stats,          \* self.stats
    result,         \* value returned by run_anti_detection_monitoring
    loaded,         \* history: the profiles as load_profiles returned them
    outcome,        \* history: per profile of this run, how its check ended, the
                    \* fingerprint stored before, the one computed, the posts
                    \* found, whether the pause of the loop body was taken
    remote,         \* environment: what fetching each profile ends with
    io,             \* history: accesses to the state store in this run
    sends           \* history: calls of send_ultra_modern_notification in this run

vars == <<csv_file, now, run, faults, pc, profiles, i, all_new_posts, changes_made,
          stats, result, loaded, outcome, remote, io, sends>>

\* OptimizedLinkedInMonitor.__init__: self.stats
ZeroStats == [total |-> 0, success |-> 0, changes |-> 0, authentic_posts |-> 0,
              generated_posts |-> 0, errors |-> 0, anti_detection_success |-> 0]

\* _create_default_profiles: defaults
DefaultProfiles ==
    <<ProfileData(CompanyUrl("microsoft"), "Microsoft", EmptyId, 0),
      ProfileData(CompanyUrl("tesla-motors"), "Tesla", EmptyId, 0),
      ProfileData(CompanyUrl("google"), "Google", EmptyId, 0)>>

\* A row of a store no run has written yet.
InitProfile(name, id, error_count) == ProfileData(CompanyUrl(id), name, EmptyId, error_count)

\* A row as an earlier run of day 0 left it after seeing the body.
SeenProfile(name, id, body, error_count) ==
    ProfileData(CompanyUrl(id), name,
        generate_intelligent_hash(
            extract_authentic_content(body, name, CompanyUrl(id), FALSE),
            name, [day |-> 0, hour |-> 0]),
        error_count)

\* The state stores a first run can find: no file, a file with a header only,
\* files with fresh, failing and suspended profiles, a file with a row
\* without URL and a row whose URL is no LinkedIn address, a file with a
\* profile seen before.
InitFiles ==
    {[exists |-> FALSE, rows |-> <<>>]} \cup
    {[exists |-> TRUE, rows |-> writerows(r)] :
        r \in {<<>>,
               <<InitProfile("Tesla", "tesla-motors", 0), InitProfile("Acme", "acme", 0)>>,
               <<InitProfile("Tesla", "tesla-motors", SuspendThreshold - 1),
                 InitProfile("Acme", "acme", SuspendThreshold)>>,
               <<InitProfile("Acme", "acme", SuspendThreshold)>>,
               <<ProfileData(NoUrl, "Tesla", EmptyId, 0),
                 ProfileData(OtherUrl("acme.example"), "Acme", EmptyId, 0)>>,
               <<SeenProfile("Acme", "acme", "one", 2),
                 InitProfile("Tesla", "tesla-motors", 0)>>}}

\* What the URL loop of check_profile_with_anti_detection can end with: no
\* response with status 200 on any URL, or a body.
FetchResults == {"failed", "noise", "one", "two"}

\* The profile names of the model: the defaults and one without template.
Names == {"Microsoft", "Tesla", "Google", "Acme"}

\* The remote behaviours a sequence of runs is explored against: one fetch
\* result per profile the store names (for the first default profile when
\* there is no store), failed, "noise" or "one"; the other names answer with
\* the body "one", the last default profile with the body "two".
Remotes(file) ==
    LET named == IF file.exists THEN {file.rows[k].name : k \in 1..Len(file.rows)}
                 ELSE {DefaultProfiles[1].name}
    IN  {r \in [Names -> FetchResults] :
            /\ \A n \in named : r[n] # "two"
            /\ \A n \in Names \ named :
                  r[n] = IF n = DefaultProfiles[Len(DefaultProfiles)].name THEN "two" ELSE "one"}

\* Where an exception can be raised inside check_profile_with_anti_detection.
Faults == {"none", "check", "analyze", "extract", "generate"}

Init ==
    /\ csv_file \in InitFiles
    /\ now = [day |-> 0, hour |-> 0]
    /\ run = 0
    /\ faults = 0
    /\ pc = "idle"
    /\ profiles = <<>>
    /\ i = 1
    /\ all_new_posts = <<>>
    /\ changes_made = FALSE
    /\ stats = ZeroStats
    /\ result = FALSE
    /\ loaded = <<>>
    /\ outcome = <<>>
    /\ remote \in Remotes(csv_file)
    /\ io = <<>>
    /\ sends = <<>>

\* --------------------------------------------------------------- operations
\* save_profiles: rewrites the whole file; False and no file change when
\* opening the file raises.
save_profiles(file, profs, raises) ==
    IF raises THEN [file |-> file, ok |-> FALSE]
    ELSE [file |-> [exists |-> TRUE, rows |-> writerows(profs)], ok |-> TRUE]

\* _parse_row: the profile of a row that has a URL and a name, in a
\* sequence of length one; the empty sequence for None.
parse_row(row) ==
    IF row.url # NoUrl /\ row.name # ""
    THEN <<ProfileData(row.url, row.name, row.last_post_id, row.error_count)>>
    ELSE <<>>

\* load_profiles, line 1596: "if profile"
parsed(row) == parse_row(row) # <<>>

\* load_profiles, lines 1594-1597: the profiles of the rows, in order.
read_rows(rows) ==
    [k \in 1..Len(SelectSeq(rows, parsed)) |-> parse_row(SelectSeq(rows, parsed)[k])[1]]

\* _create_default_profiles: writes the defaults to the store and returns them
create_default_profiles(file, save_raises) ==
    [file |-> save_profiles(file, DefaultProfiles, save_raises).file,
     profiles |-> DefaultProfiles,
     io |-> <<[op |-> "write", phase |-> "load"]>>]

\* load_profiles: the defaults when the file is absent or reading it raises,
\* else the rows that parse
load_profiles(file, read_raises, save_raises) ==
    IF ~file.exists THEN create_default_profiles(file, save_raises)
    ELSE IF read_raises
    THEN LET d == create_default_profiles(file, save_raises)
         IN  [d EXCEPT !.io = <<[op |-> "read", phase |-> "load"]>> \o @]
    ELSE [file |-> file,
          profiles |-> read_rows(file.rows),
          io |-> <<[op |-> "read", phase |-> "load"]>>]

\* The number of posts extracted from the body (source_method
\* "authentic_extraction").
authentic_count(posts_data) ==
    Cardinality({k \in 1..Len(posts_data) :
                    posts_data[k].source_method = "authentic_extraction"})

\* A check that leaves error_count as it was when it succeeds.
check_result_keeping_count(profile, st, analysis, fault, clock) ==
    IF fault = "check"
    THEN [profile |-> [profile EXCEPT !.error_count = @ + 1], stats |-> st,
          returned |-> FALSE, analysis |-> analysis]
    ELSE IF analysis.posts_data # <<>>
    THEN [profile |-> profile,
          stats |-> [st EXCEPT
                        !.authentic_posts = @ + authentic_count(analysis.posts_data),
                        !.generated_posts = @ + Len(analysis.posts_data)
                                              - authentic_count(analysis.posts_data)],
          returned |-> TRUE, analysis |-> analysis]
    ELSE [profile |-> [profile EXCEPT !.error_count = @ + 1], stats |-> st,
          returned |-> FALSE, analysis |-> analysis]

\* check_profile_with_anti_detection, lines 1678-1697: the profile and the
\* statistics after the analysis, and what is returned (returned = FALSE
\* for None).
check_result(profile, st, analysis, fault, clock) ==
    IF fault = "check"
    THEN [profile |-> [profile EXCEPT !.error_count = @ + 1], stats |-> st,
          returned |-> FALSE, analysis |-> analysis]
    ELSE IF analysis.posts_data # <<>>
    THEN [profile |-> [profile EXCEPT !.error_count = 0, !.last_success = <<clock>>],
          stats |-> [st EXCEPT
                        !.authentic_posts = @ + authentic_count(analysis.posts_data),
                        !.generated_posts = @ + Len(analysis.posts_data)
                                              - authentic_count(analysis.posts_data)],
          returned |-> TRUE, analysis |-> analysis]
    ELSE [profile |-> [profile EXCEPT !.error_count = @ + 1], stats |-> st,
          returned |-> FALSE, analysis |-> analysis]

\* ---------------------------------------------------------- the URL loop
\* What one session.get meets: a response (status and text, the text being a
\* key of Bodies) or an exception (timeout, connection error).
Response(status, text) == [raises |-> FALSE, status |-> status, text |-> text]
Raised(what) == [raises |-> TRUE, status |-> 0, text |-> what]

\* None
None == <<>>

\* _try_direct_request: None on an exception and on status 999, else the
\* response whatever its status
try_direct_request(r) ==
    IF r.raises THEN None
    ELSE IF r.status = 999 THEN None
    ELSE <<r>>

\* _try_google_cache: the response when its status is 200 and its text
\* mentions linkedin (the non-empty bodies of Bodies are LinkedIn pages)
try_google_cache(r) ==
    IF r.raises THEN None
    ELSE IF r.status = 200 /\ Bodies[r.text].nonempty THEN <<r>>
    ELSE None

\* _try_wayback_machine
try_wayback_machine(r) ==
    IF r.raises THEN None
    ELSE IF r.status = 200 THEN <<r>>
    ELSE None

\* _try_social_referrer
try_social_referrer(r) ==
    IF r.raises THEN None
    ELSE IF r.status = 200 THEN <<r>>
    ELSE None

\* "if response and response.status_code == 200"
is_200(response) == response # None /\ response[1].status = 200

\* make_stealth_request: the strategies in order, each one session.get that
\* meets the next reply of the script; gets counts the session.get calls made
\* so far. The first response with status 200, else None.
make_stealth_request(script, gets) ==
    IF is_200(try_direct_request(script[gets + 1]))
    THEN [response |-> try_direct_request(script[gets + 1]), gets |-> gets + 1]
    ELSE IF is_200(try_google_cache(script[gets + 2]))
    THEN [response |-> try_google_cache(script[gets + 2]), gets |-> gets + 2]
    ELSE IF is_200(try_wayback_machine(script[gets + 3]))
    THEN [response |-> try_wayback_machine(script[gets + 3]), gets |-> gets + 3]
    ELSE IF is_200(try_social_referrer(script[gets + 4]))
    THEN [response |-> try_social_referrer(script[gets + 4]), gets |-> gets + 4]
    ELSE [response |-> None, gets |-> gets + 4]

\* _generate_smart_urls: the variants of the profile URL, the URL itself when
\* it is not among them, cut to MaxUrls
generate_smart_urls(base_url) ==
    LET urls == IF base_url.kind = "company"
                THEN <<[kind |-> "company-posts", id |-> base_url.id],
                       [kind |-> "company", id |-> base_url.id],
                       [kind |-> "company-about", id |-> base_url.id]>>
                ELSE IF base_url.kind = "in"
                THEN <<[kind |-> "in-activity", id |-> base_url.id],
                       [kind |-> "in", id |-> base_url.id]>>
                ELSE <<>>
    IN  Take(IF base_url \in Range(urls) THEN urls ELSE Append(urls, base_url), MaxUrls)

\* check_profile_with_anti_detection, lines 1653-1671: the loop over
\* check_urls from the k-th URL on; it breaks at the first response with
\* status 200, and ends with detection_failed when no URL gave one.
RECURSIVE check_urls_loop(_, _, _, _)
check_urls_loop(check_urls, k, script, gets) ==
    IF k > Len(check_urls)
    THEN [detection_failed |-> TRUE, html_content |-> "empty", gets |-> gets]
    ELSE IF is_200(make_stealth_request(script, gets).response)
    THEN [detection_failed |-> FALSE,
          html_content |-> make_stealth_request(script, gets).response[1].text,
          gets |-> make_stealth_request(script, gets).gets]
    ELSE check_urls_loop(check_urls, k + 1, script, make_stealth_request(script, gets).gets)

\* The fetch result a run of the loop amounts to.
fetch_of(loop) == IF loop.detection_failed THEN "failed" ELSE loop.html_content

\* The replies that are no page: throttling, block, timeout, connection error.
FailReplies ==
    {Response(429, "empty"), Response(999, "empty"), Raised("Timeout"), Raised("ConnectionError")}

\* The replies of status 200.
HitReplies == {Response(200, b) : b \in {"empty", "noise", "one", "two"}}

\* The scripts of replies: one reply per session.get a check can make, all of
\* one failing kind but at most one of status 200.
Scripts ==
    {[g \in 1..(MaxUrls * Strategies) |-> IF g = h THEN r ELSE f] :
        f \in FailReplies, h \in 0..(MaxUrls * Strategies), r \in HitReplies}

\* The scripts on which the loop over the URLs of a profile ends with a given
\* fetch result.
ScriptsOf ==
    [kind \in {"company", "in", "other", ""} |->
        [fetch \in FetchResults |->
            {s \in Scripts :
                fetch_of(check_urls_loop(generate_smart_urls([kind |-> kind, id |-> "x"]),
                                         1, s, 0)) = fetch}]]

\* check_profile_with_anti_detection: the URL loop ends with the fetch result
\* (detection_failed with an empty html_content, or a body), then the analysis.
check_profile_with_anti_detection(profile, st, fetch, order, fault, clock) ==
    check_result(profile,
        [st EXCEPT !.anti_detection_success =
            IF fetch = "failed" \/ fault = "check" THEN @ ELSE @ + 1],
        analyze_with_intelligent_fallback(IF fetch = "failed" THEN "empty" ELSE fetch,
            profile.url, profile.name, fetch = "failed", clock, order, fault),
        fault, clock)

\* A message body that lists the groups from the last profile name met to the
\* first.
group_by_profile_last_first(posts) ==
    LET first == SelectSeq([k \in 1..Len(posts) |-> k],
                     LAMBDA k : \A j \in 1..(k - 1) :
                                  posts[j].profile_name # posts[k].profile_name)
        f[n \in 0..Len(first)] ==
            IF n = 0 THEN <<>>
            ELSE SelectSeq(posts, LAMBDA q :
                     q.profile_name = posts[first[n]].profile_name) \o f[n - 1]
    IN  f[Len(first)]

\* _build_enhanced_text_message and _build_revolutionary_html_message, lines
\* 749-758 and 1364-1372: the posts are put in a dictionary keyed by profile
\* name (insertion order) and listed group after group.
group_by_profile(posts) ==
    LET first == SelectSeq([k \in 1..Len(posts) |-> k],
                     LAMBDA k : \A j \in 1..(k - 1) :
                                  posts[j].profile_name # posts[k].profile_name)
        f[n \in 0..Len(first)] ==
            IF n = 0 THEN <<>>
            ELSE f[n - 1] \o SelectSeq(posts, LAMBDA q :
                                 q.profile_name = posts[first[n]].profile_name)
    IN  f[Len(first)]

\* send_ultra_modern_notification: True without contacting the transport for
\* an empty list; else the message is composed (items: the posts in the order
\* of the message body) and sent, False when the transport raises.
send_ultra_modern_notification(posts, smtp_raises) ==
    IF posts = <<>> THEN [returned |-> TRUE, contacted |-> FALSE, items |-> posts]
    ELSE [returned |-> ~smtp_raises, contacted |-> TRUE, items |-> group_by_profile(posts)]

\* ------------------------------------------------------------------ actions
\* The times a run can start at: the first run at the origin of the clock,
\* a later run in the same hour as the run before it or at any later time.
StartTimes ==
    IF pc = "idle" THEN {now}
    ELSE {t \in [day : 0..MaxDay, hour : 0..MaxHour] :
            t.day > now.day \/ (t.day = now.day /\ t.hour >= now.hour)}

\* run_anti_detection_monitoring, lines 1758-1765, in a new process: the
\* profiles are loaded; no profile ends the run with False.
StartRun ==
    /\ pc \in {"idle", "done", "killed"}
    /\ run < MaxRuns
    /\ \E read_raises \in BOOLEAN, save_raises \in BOOLEAN :
        LET l == load_profiles(csv_file, read_raises, save_raises)
            injected == (IF read_raises THEN 1 ELSE 0) + (IF save_raises THEN 1 ELSE 0)
        IN  /\ read_raises => csv_file.exists
            /\ save_raises => (~csv_file.exists \/ read_raises)
            /\ faults + injected <= MaxFaults
            /\ faults' = faults + injected
            /\ csv_file' = l.file
            /\ profiles' = l.profiles
            /\ loaded' = l.profiles
            /\ io' = l.io
            /\ stats' = [ZeroStats EXCEPT !.total = Len(l.profiles)]
            /\ pc' = IF l.profiles = <<>> THEN "done" ELSE "loop"
    /\ run' = run + 1
    /\ i' = 1
    /\ all_new_posts' = <<>>
    /\ changes_made' = FALSE
    /\ result' = FALSE
    /\ outcome' = <<>>
    /\ sends' = <<>>
    /\ now' \in StartTimes
    /\ UNCHANGED remote

\* A loop that stops at the first profile whose check returned None.
loop_done_break ==
    \/ i > Len(profiles)
    \/ outcome # <<>> /\ outcome[Len(outcome)].kind = "Failed"

\* Line 1768: the loop has passed the last profile.
loop_done == i > Len(profiles)

\* A comparison that does not count a first observation as a change.
fingerprint_changed_seen_only(last_post_id, current_hash) ==
    last_post_id # EmptyId /\ last_post_id # current_hash

\* Line 1787: "if profile.last_post_id != current_hash"
fingerprint_changed(last_post_id, current_hash) == last_post_id # current_hash

\* An accumulation that keeps the first new post of a profile only.
extend_first_only(posts, new_posts) == posts \o Take(new_posts, 1)

\* Line 1796: self.all_new_posts.extend(new_posts)
extend(posts, new_posts) == posts \o new_posts

\* A pause that is left out after the last two profiles.
pause_due_before_last_two(index, profs) == index < Len(profs) - 1

\* Lines 1811-1814, "if i < len(profiles) - 1" with i counted from 0: the
\* pause at the end of the loop body is taken after every profile but the
\* last one.
pause_due(index, profs) == index < Len(profs)

\* Loop body, lines 1772-1774: a suspended profile is passed over ("continue"
\* leaves the loop body before its pause).
SkipProfile ==
    /\ pc = "loop"
    /\ ~loop_done
    /\ profiles[i].error_count >= SuspendThreshold
    /\ outcome' = Append(outcome,
            [name |-> profiles[i].name, kind |-> "Skipped", fault |-> "none",
             before |-> profiles[i].last_post_id, hash |-> EmptyId, posts_data |-> <<>>,
             paused |-> FALSE])
    /\ i' = i + 1
    /\ UNCHANGED <<csv_file, now, run, faults, pc, profiles, all_new_posts, changes_made,
                   stats, result, loaded, remote, io, sends>>

\* Whether the fault can be raised on this path of the check.
Applicable(fault, fetch) ==
    LET html == IF fetch = "failed" THEN "empty" ELSE fetch
    IN  CASE fault = "extract" -> Bodies[html].nonempty
          [] fault = "generate" ->
                IF Bodies[html].nonempty
                THEN extract_authentic_content(html, "", NoUrl, FALSE) = <<>>
                ELSE TRUE
          [] OTHER -> TRUE

\* Loop body, lines 1776-1814: the profile is checked, the result counted,
\* the fingerprint compared, new posts accumulated; then the pause.
CheckProfile ==
    /\ pc = "loop"
    /\ ~loop_done
    /\ profiles[i].error_count < SuspendThreshold
    /\ ScriptsOf[profiles[i].url.kind][remote[profiles[i].name]] # {}
    /\ \E order \in SampleOrders, fault \in Faults :
      \E c \in {check_profile_with_anti_detection(profiles[i], stats,
                    remote[profiles[i].name], order, fault, now)} :
        LET current_hash == c.analysis.content_hash
            changed == fingerprint_changed(c.profile.last_post_id, c.analysis.content_hash)
            new_posts == c.analysis.posts_data
        IN  /\ fault # "none" =>
                    faults < MaxFaults /\ Applicable(fault, remote[profiles[i].name])
            /\ faults' = IF fault # "none" THEN faults + 1 ELSE faults
            /\ IF c.returned
               THEN /\ stats' = [c.stats EXCEPT !.success = @ + 1,
                                     !.changes = IF changed THEN @ + 1 ELSE @]
                    /\ changes_made' = (changes_made \/ changed)
                    /\ all_new_posts' = IF changed THEN extend(all_new_posts, new_posts)
                                        ELSE all_new_posts
                    /\ profiles' = [profiles EXCEPT ![i] =
                            IF changed THEN [c.profile EXCEPT !.last_post_id = current_hash]
                            ELSE c.profile]
                    /\ outcome' = Append(outcome,
                            [name |-> profiles[i].name,
                             kind |-> IF changed THEN "Changed" ELSE "Unchanged",
                             fault |-> fault, before |-> profiles[i].last_post_id,
                             hash |-> current_hash, posts_data |-> new_posts,
                             paused |-> pause_due(i, profiles)])
               ELSE /\ stats' = [c.stats EXCEPT !.errors = @ + 1]
                    /\ profiles' = [profiles EXCEPT ![i] = c.profile]
                    /\ outcome' = Append(outcome,
                            [name |-> profiles[i].name, kind |-> "Failed",
                             fault |-> fault, before |-> profiles[i].last_post_id,
                             hash |-> EmptyId, posts_data |-> <<>>,
                             paused |-> pause_due(i, profiles)])
                    /\ UNCHANGED <<changes_made, all_new_posts>>
    /\ i' = i + 1
    /\ UNCHANGED <<csv_file, now, run, pc, result, loaded, remote, io, sends>>

\* A save made whenever a check of the run succeeded.
SaveStateWhenSucceeded ==
    /\ pc = "loop"
    /\ loop_done
    /\ IF stats.success > 0
       THEN \E save_raises \in BOOLEAN :
              /\ save_raises => faults < MaxFaults
              /\ faults' = IF save_raises THEN faults + 1 ELSE faults
              /\ csv_file' = save_profiles(csv_file, profiles, save_raises).file
              /\ io' = Append(io, [op |-> "write", phase |-> "end"])
       ELSE UNCHANGED <<csv_file, io, faults>>
    /\ pc' = "notify"
    /\ UNCHANGED <<now, run, profiles, i, all_new_posts, changes_made, stats, result,
                   loaded, outcome, remote, sends>>

\* Lines 1821-1823, after the loop: the profiles are saved when changes_made.
SaveState ==
    /\ pc = "loop"
    /\ loop_done
    /\ IF changes_made
       THEN \E save_raises \in BOOLEAN :
              /\ save_raises => faults < MaxFaults
              /\ faults' = IF save_raises THEN faults + 1 ELSE faults
              /\ csv_file' = save_profiles(csv_file, profiles, save_raises).file
              /\ io' = Append(io, [op |-> "write", phase |-> "end"])
       ELSE UNCHANGED <<csv_file, io, faults>>
    /\ pc' = "notify"
    /\ UNCHANGED <<now, run, profiles, i, all_new_posts, changes_made, stats, result,
                   loaded, outcome, remote, sends>>

\* A notification step that writes the loaded profiles back to the store
\* when the send failed.
NotifyRollingBack ==
    /\ pc = "notify"
    /\ IF all_new_posts # <<>>
       THEN \E smtp_raises \in BOOLEAN :
              /\ sends' = Append(sends,
                            send_ultra_modern_notification(all_new_posts, smtp_raises))
              /\ csv_file' = IF smtp_raises
                             THEN [exists |-> TRUE, rows |-> writerows(loaded)]
                             ELSE csv_file
       ELSE UNCHANGED <<sends, csv_file>>
    /\ pc' = "report"
    /\ UNCHANGED <<now, run, faults, profiles, i, all_new_posts, changes_made,
                   stats, result, loaded, outcome, remote, io>>

\* A notification step that calls the notifier whatever the buffer holds.
NotifyAlways ==
    /\ pc = "notify"
    /\ \E smtp_raises \in BOOLEAN :
          sends' = Append(sends,
                      send_ultra_modern_notification(all_new_posts, smtp_raises))
    /\ pc' = "report"
    /\ UNCHANGED <<csv_file, now, run, faults, profiles, i, all_new_posts, changes_made,
                   stats, result, loaded, outcome, remote, io>>

\* A notification step that sends the message again when the transport
\* raised.
NotifyRetrying ==
    /\ pc = "notify"
    /\ IF all_new_posts # <<>>
       THEN \E smtp_raises \in BOOLEAN :
              sends' = IF smtp_raises
                       THEN sends \o
                            <<send_ultra_modern_notification(all_new_posts, TRUE),
                              send_ultra_modern_notification(all_new_posts, FALSE)>>
                       ELSE Append(sends,
                              send_ultra_modern_notification(all_new_posts, FALSE))
       ELSE UNCHANGED sends
    /\ pc' = "report"
    /\ UNCHANGED <<csv_file, now, run, faults, profiles, i, all_new_posts, changes_made,
                   stats, result, loaded, outcome, remote, io>>

\* Lines 1825-1831: one notification for all the accumulated posts.
Notify ==
    /\ pc = "notify"
    /\ IF all_new_posts # <<>>
       THEN \E smtp_raises \in BOOLEAN :
              sends' = Append(sends,
                          send_ultra_modern_notification(all_new_posts, smtp_raises))
       ELSE UNCHANGED sends
    /\ pc' = "report"
    /\ UNCHANGED <<csv_file, now, run, faults, profiles, i, all_new_posts, changes_made,
                   stats, result, loaded, outcome, remote, io>>

\* Lines 1833-1836: the report is printed and the run returns.
Report ==
    /\ pc = "report"
    /\ result' = (stats.success > 0 \/ stats.generated_posts > 0)
    /\ pc' = "done"
    /\ UNCHANGED <<csv_file, now, run, faults, profiles, i, all_new_posts, changes_made,
                   stats, loaded, outcome, remote, io, sends>>

\* main, lines 1908-1947: the completion status of the process. An invalid
\* configuration makes validate_environment raise, which the handler at
\* lines 1944-1947 answers with sys.exit(0); else the status follows the
\* value the run returned (lines 1930-1942).
main(config_valid, success) ==
    IF ~config_valid THEN 0
    ELSE IF success THEN 0
    ELSE 0

\* The process is terminated from outside while a run is under way: between
\* two steps of the run, or inside save_profiles (lines 1731-1735) after
\* open(..., 'w') has emptied the file and n of the rows have been written.
\* Terminations are counted with the injected exceptions.
Interrupt ==
    /\ pc \in {"loop", "notify", "report"}
    /\ faults < MaxFaults
    /\ faults' = faults + 1
    /\ \/ UNCHANGED <<csv_file, io>>
       \/ /\ pc = "loop"
          /\ loop_done
          /\ changes_made
          /\ \E n \in 0..(Len(profiles) - 1) :
                csv_file' = [exists |-> TRUE, rows |-> Take(writerows(profiles), n)]
          /\ io' = Append(io, [op |-> "write", phase |-> "end"])
    /\ pc' = "killed"
    /\ UNCHANGED <<now, run, profiles, i, all_new_posts, changes_made, stats, result,
                   loaded, outcome, remote, sends>>

Next ==
    \/ StartRun \/ SkipProfile \/ CheckProfile \/ SaveState \/ Notify \/ Report
    \/ Interrupt

Spec == Init /\ [][Next]_vars

TypeOK ==
    /\ pc \in {"idle", "loop", "notify", "report", "done", "killed"}
    /\ run \in 0..MaxRuns
    /\ faults \in 0..MaxFaults
    /\ i \in 1..(Len(profiles) + 1)

\* ---------------------------------------------------------------- properties
\* The check of the profile returned an analysis (it was not skipped and
\* did not return None).
Returned(o) == o.kind \in {"Changed", "Unchanged"}

\* The run has left the loop over the profiles.
AfterLoop == pc \in {"notify", "report", "done"} /\ run > 0

\* The items of the first n outcomes of the run that are classified Changed,
\* in the order of the profiles.
ItemsOfChanged ==
    LET f[n \in 0..Len(outcome)] ==
            IF n = 0 THEN <<>>
            ELSE f[n - 1] \o (IF outcome[n].kind = "Changed"
                              THEN outcome[n].posts_data ELSE <<>>)
    IN  f

\* The items of the first n outcomes whose new fingerprint differs from the
\* stored one.
ItemsOfDiffering ==
    LET f[n \in 0..Len(outcome)] ==
            IF n = 0 THEN <<>>
            ELSE f[n - 1] \o (IF Returned(outcome[n]) /\ outcome[n].hash # outcome[n].before
                              THEN outcome[n].posts_data ELSE <<>>)
    IN  f

\* C1: in a run the notification is sent exactly once when the buffer is
\* not empty after the last profile, and never more than once: nothing is
\* sent while the profiles are being checked, and a send that failed is not
\* repeated.
C1_SingleDispatch ==
    /\ Len(sends) <= 1
    /\ pc \in {"loop", "notify"} => sends = <<>>
    /\ (pc \in {"report", "done"} /\ all_new_posts # <<>>) =>
            /\ Len(sends) = 1
            /\ sends[1].contacted
            /\ sends[1].items = all_new_posts

\* C1 witness: a finished run with two Changed profiles, one send, and the
\* send failed.
C1_Witness ==
    /\ pc = "done"
    /\ stats.changes >= 2
    /\ Len(sends) = 1
    /\ ~sends[1].returned

\* C2 (as stated): a profile whose body yields no validated item (or that
\* has no body because every fetch failed) produces no item, and every
\* accumulated item was extracted from a fetched body.
C2_OnlyExtractedItems ==
    /\ \A k \in 1..Len(outcome) :
         (\/ remote[outcome[k].name] = "failed"
          \/ extract_authentic_content(
                IF remote[outcome[k].name] = "failed" THEN "empty"
                ELSE remote[outcome[k].name],
                outcome[k].name, profiles[k].url, FALSE) = <<>>)
            => outcome[k].posts_data = <<>>
    /\ \A k \in 1..Len(all_new_posts) :
         /\ all_new_posts[k].source_method = "authentic_extraction"
         /\ remote[all_new_posts[k].profile_name] # "failed"

\* C3 (as stated): a second run against the same remote bodies, at any
\* later time, leaves every stored fingerprint as loaded, raises no failure
\* count, and sends nothing.
C3_SecondRunIdle ==
    (/\ run = 2
     /\ faults = 0
     /\ \A k \in 1..Len(loaded) : remote[loaded[k].name] # "failed")
    => /\ \A k \in 1..Len(profiles) :
            /\ profiles[k].last_post_id = loaded[k].last_post_id
            /\ profiles[k].error_count <= loaded[k].error_count
       /\ sends = <<>>

\* C4 (as stated): a profile whose fetches all fail has the outcome Failed:
\* error_count is one more than loaded, no fingerprint is computed,
\* last_post_id is as loaded, and no item of it is accumulated.
C4_FetchFailedOutcome ==
    \A k \in 1..Len(outcome) :
        (outcome[k].kind # "Skipped" /\ remote[outcome[k].name] = "failed")
        => /\ outcome[k].kind = "Failed"
           /\ outcome[k].hash = EmptyId
           /\ profiles[k].error_count = loaded[k].error_count + 1
           /\ profiles[k].last_post_id = loaded[k].last_post_id
           /\ outcome[k].posts_data = <<>>
           /\ \A n \in 1..Len(all_new_posts) :
                all_new_posts[n].profile_name # outcome[k].name

\* C5: a failed check does not end the run: one outcome per profile, in
\* order, every profile that is not suspended is checked, the buffer holds
\* the items of all Changed profiles, and the notification carries them.
C5_FailureDoesNotAbortRun ==
    /\ Len(outcome) = i - 1
    /\ AfterLoop => Len(outcome) = Len(profiles)
    /\ \A k \in 1..Len(outcome) :
         /\ outcome[k].name = profiles[k].name
         /\ outcome[k].kind = "Skipped" <=> loaded[k].error_count >= SuspendThreshold
    /\ all_new_posts = ItemsOfChanged[Len(outcome)]
    /\ \A n \in 1..Len(sends) : sends[n].items = ItemsOfChanged[Len(outcome)]
    /\ (pc \in {"report", "done"} /\ ItemsOfChanged[Len(outcome)] # <<>>) => sends # <<>>

\* C5 witness: a finished run where a check failed, a later profile is
\* Changed, and its items are in the notification.
C5_Witness ==
    /\ pc = "done"
    /\ Len(sends) = 1
    /\ \E k \in 1..Len(outcome) : \E j \in (k + 1)..Len(outcome) :
         /\ outcome[k].kind = "Failed"
         /\ outcome[j].kind = "Changed"
         /\ outcome[j].posts_data # <<>>
         /\ \A n \in 1..Len(outcome[j].posts_data) :
              outcome[j].posts_data[n] \in Range(sends[1].items)

\* C6: a check that returned is Changed exactly when the new fingerprint
\* differs from the stored one, an empty stored fingerprint included; then
\* error_count is 0, last_post_id is the new fingerprint, and the items are
\* appended at the end of the buffer, which holds nothing else.
C6_ChangedIffFingerprintDiffers ==
    /\ \A k \in 1..Len(outcome) :
         LET o == outcome[k]
         IN  (Returned(o) /\ remote[o.name] # "failed") =>
               /\ o.kind = "Changed" <=> o.hash # o.before
               /\ o.before = EmptyId => o.kind = "Changed"
               /\ o.kind = "Changed" =>
                    /\ profiles[k].error_count = 0
                    /\ profiles[k].last_post_id = o.hash
                    /\ ItemsOfDiffering[k] = ItemsOfDiffering[k - 1] \o o.posts_data
    /\ all_new_posts = ItemsOfDiffering[Len(outcome)]

\* C6 witness: a fetched profile with a stored fingerprint is Changed after
\* another Changed profile, and its items end the buffer.
C6_Witness ==
    \E k \in 2..Len(outcome) :
        /\ k = Len(outcome)
        /\ remote[outcome[k].name] # "failed"
        /\ outcome[k].kind = "Changed"
        /\ outcome[k].before # EmptyId
        /\ outcome[k - 1].kind = "Changed"
        /\ outcome[k].posts_data # <<>>
        /\ all_new_posts = ItemsOfDiffering[k - 1] \o outcome[k].posts_data
        /\ ItemsOfDiffering[k - 1] # <<>>

\* The step that checks profile i returns an analysis whose fingerprint is
\* the stored one, after a fetch that gave a body.
UnchangedStep ==
    /\ pc = "loop"
    /\ Len(outcome') = Len(outcome) + 1
    /\ Returned(outcome'[Len(outcome')])
    /\ outcome'[Len(outcome')].hash = outcome'[Len(outcome')].before
    /\ remote[outcome'[Len(outcome')].name] # "failed"

\* C7: a check whose fingerprint equals the stored one changes, of the
\* stored record of the profiles (URL, Name, Last_Post_ID, Error_Count), only
\* the error_count of the profile, which becomes 0; last_post_id, the other
\* profiles, the buffer, the change flag, the store and the sent messages
\* stay as they are, and no item of the profile is in the buffer or in a
\* notification. (The time of the success is noted in last_success, a field
\* of the object that is not a column of the store and that nothing reads.)
C7_UnchangedOnlyResetsCount ==
    /\ [][UnchangedStep =>
            /\ writerows(profiles') = writerows([profiles EXCEPT ![i].error_count = 0])
            /\ \A k \in 1..Len(profiles) : k # i => profiles'[k] = profiles[k]
            /\ UNCHANGED <<all_new_posts, changes_made, csv_file, io, sends>>]_vars
    /\ [](\A k \in 1..Len(outcome) :
            (Returned(outcome[k]) /\ outcome[k].hash = outcome[k].before) =>
               /\ profiles[k].last_post_id = loaded[k].last_post_id
               /\ \A n \in 1..Len(all_new_posts) :
                    all_new_posts[n].profile_name # outcome[k].name
               /\ \A m \in 1..Len(sends) : \A n \in 1..Len(sends[m].items) :
                    sends[m].items[n].profile_name # outcome[k].name)

\* C7 witness: a finished run where a fetched profile loaded with a failure
\* count is Unchanged, its count is 0, and a notification was sent for
\* another profile.
C7_Witness ==
    /\ pc = "done"
    /\ Len(sends) = 1
    /\ \E k \in 1..Len(outcome) :
         /\ outcome[k].kind = "Unchanged"
         /\ remote[outcome[k].name] # "failed"
         /\ loaded[k].error_count > 0
         /\ profiles[k].error_count = 0
         /\ profiles[k].last_post_id = loaded[k].last_post_id

\* C8 (as stated): a profile stored with a failure count at the suspension
\* threshold stays stored as it is whatever the program does, and every run
\* skips it without touching it.
C8_SuspendedStaysSuspended ==
    /\ [][\A k \in 1..Len(csv_file.rows) :
            csv_file.rows[k].error_count >= SuspendThreshold =>
                csv_file.rows[k] \in Range(csv_file'.rows)]_vars
    /\ [](\A k \in 1..Len(outcome) :
            loaded[k].error_count >= SuspendThreshold =>
                outcome[k].kind = "Skipped" /\ profiles[k] = loaded[k])

\* C9 (as stated): after the loop, when a profile's last_post_id or
\* error_count differs from what was loaded, the profiles were written to
\* the store at the end of this run.
C9_MutationIsPersisted ==
    (/\ pc \in {"notify", "report", "done"}
     /\ \E k \in 1..Len(profiles) :
          \/ profiles[k].last_post_id # loaded[k].last_post_id
          \/ profiles[k].error_count # loaded[k].error_count)
    => \E n \in 1..Len(io) : io[n] = [op |-> "write", phase |-> "end"]

\* C10 (as stated): in a run the store is read at most once and written at
\* most once, and every write is the one made after the loop.
C10_SingleWriteAfterLoop ==
    /\ Cardinality({n \in 1..Len(io) : io[n].op = "read"}) <= 1
    /\ Cardinality({n \in 1..Len(io) : io[n].op = "write"}) <= 1
    /\ \A n \in 1..Len(io) : io[n].op = "write" => io[n].phase = "end" /\ AfterLoop

\* C11 (as stated): when the process is terminated during a run, the store is
\* as it was before the step or holds the rows of all profiles, and a
\* termination before the end-of-run write leaves the store as it was and
\* nothing has been sent.
C11_InterruptLeavesWholeStore ==
    [][pc' = "killed" =>
         /\ csv_file' = csv_file \/ csv_file'.rows = writerows(profiles)
         /\ pc = "loop" => sends' = <<>>]_vars

\* C12: the notifier is never called with an empty list, and whenever the
\* mail transport is contacted the message carries at least one item.
C12_NeverEmptyNotification ==
    \A n \in 1..Len(sends) :
        /\ sends[n].items # <<>>
        /\ sends[n].contacted

\* C12 witness: a finished run in which the transport was contacted with
\* the items of the buffer.
C12_Witness ==
    /\ pc = "done"
    /\ Len(sends) = 1
    /\ sends[1].contacted
    /\ Len(sends[1].items) >= 1

\* C13: the step that sends the notification leaves the store and the
\* profiles as they are and goes on to the report whatever the send returns;
\* and when a send failed, the store was written at the end of the loop
\* before it and, no exception or termination having been injected, holds
\* the rows of the profiles as the run left them.
C13_SendFailureKeepsPersistence ==
    /\ [][(pc = "notify" /\ sends' # sends) =>
            /\ pc' = "report"
            /\ UNCHANGED <<csv_file, io, profiles, changes_made>>]_vars
    /\ [](\A n \in 1..Len(sends) :
            ~sends[n].returned =>
               /\ changes_made
               /\ \E m \in 1..Len(io) : io[m] = [op |-> "write", phase |-> "end"]
               /\ faults = 0 => csv_file.rows = writerows(profiles))

\* C13 witness: a finished run whose send failed, with the report made and
\* the store holding the new fingerprint of the Changed profiles.
C13_Witness ==
    /\ pc = "done"
    /\ faults = 0
    /\ Len(sends) = 1
    /\ ~sends[1].returned
    /\ result
    /\ csv_file.rows = writerows(profiles)
    /\ \E k \in 1..Len(profiles) :
         /\ outcome[k].kind = "Changed"
         /\ csv_file.rows[k].last_post_id = outcome[k].hash
         /\ csv_file.rows[k].last_post_id # loaded[k].last_post_id

\* The position in the loaded list of the profile with this name.
IndexOf(name) == CHOOSE k \in 1..Len(loaded) : loaded[k].name = name

\* C14: the profiles are processed one at a time in the order of the loaded
\* list, and in a message the items of a profile are those detected for it,
\* in the order of detection, the groups following the order of the list
\* (the store naming each profile once).
C14_OrderOfProcessingAndItems ==
    /\ [][outcome' # outcome =>
            \/ outcome' = <<>>
            \/ /\ outcome' = Append(outcome, outcome'[Len(outcome')])
               /\ Len(outcome') = i
               /\ outcome'[i].name = loaded[i].name
               /\ i' = i + 1]_vars
    /\ [](\A n \in 1..Len(sends) :
            /\ \A p \in 1..Len(sends[n].items) : \A q \in (p + 1)..Len(sends[n].items) :
                 IndexOf(sends[n].items[p].profile_name)
                    <= IndexOf(sends[n].items[q].profile_name)
            /\ \A k \in 1..Len(outcome) :
                 SelectSeq(sends[n].items, LAMBDA x : x.profile_name = outcome[k].name)
                    = IF outcome[k].kind = "Changed" THEN outcome[k].posts_data ELSE <<>>)

\* C14 witness: a message with the two items of a first Changed profile
\* followed by the items of a second one.
C14_Witness ==
    /\ Len(sends) = 1
    /\ \E k \in 1..Len(outcome) : \E j \in (k + 1)..Len(outcome) :
         /\ outcome[k].kind = "Changed"
         /\ outcome[j].kind = "Changed"
         /\ Len(outcome[k].posts_data) = 2
         /\ outcome[j].posts_data # <<>>
         /\ sends[1].items = outcome[k].posts_data \o outcome[j].posts_data

\* C15 (as stated): a run that has returned reports True exactly when at
\* least one profile was processed successfully, whatever was sent; it
\* reports False when the list is empty, when every profile is skipped and
\* when the check of every profile failed, every fetch of a profile having
\* failed included.
C15_SuccessIffAProfileProcessed ==
    pc = "done" =>
        /\ result <=> \E k \in 1..Len(outcome) :
                        Returned(outcome[k]) /\ remote[outcome[k].name] # "failed"
        /\ loaded = <<>> => ~result
        /\ (\A k \in 1..Len(outcome) :
               \/ outcome[k].kind \in {"Skipped", "Failed"}
               \/ remote[outcome[k].name] = "failed") => ~result

\* C16 (as stated): a run that reports failure, and a process whose
\* configuration is invalid, end with a completion status other than 0, and
\* nothing is sent in a run that reports failure.
C16_FailureExitsNonZero ==
    (pc = "done" /\ ~result) =>
        /\ main(TRUE, result) # 0
        /\ \A success \in BOOLEAN : main(FALSE, success) # 0
        /\ sends = <<>>

\* The times of the clock.
Times == [day : 0..MaxDay, hour : 0..MaxHour]

\* C17 (as stated): the fingerprint computed in a check is the one
\* _generate_intelligent_hash returns for the same posts of the same profile
\* at any other time.
C17_FingerprintOfSignalsOnly ==
    \A k \in 1..Len(outcome) :
        Returned(outcome[k]) =>
            \A t \in Times :
                generate_intelligent_hash(outcome[k].posts_data, outcome[k].name, t)
                    = outcome[k].hash

\* C18 (as stated): a body whose extracted posts differ from those of the
\* body a check has fetched (a post more, a post less, another title, summary
\* or activity identifier) has another fingerprint at the same time.
C18_FingerprintSensitive ==
    \A k \in 1..Len(outcome) :
        (Returned(outcome[k]) /\ remote[outcome[k].name] # "failed") =>
            \A b \in DOMAIN Bodies :
                LET posts == extract_authentic_content(b, outcome[k].name,
                                                       profiles[k].url, FALSE)
                IN  (posts # <<>> /\ posts # outcome[k].posts_data) =>
                        generate_intelligent_hash(posts, outcome[k].name, now)
                            # outcome[k].hash

\* The titles and descriptions _create_intelligent_title and
\* _create_intelligent_description fall back to when the content gives none.
GenericTitles ==
    {Title("Nouvelle publication LinkedIn", <<>>), Title("Nouvelle publication professionnelle", <<>>)}

GenericDescriptions ==
    {[text |-> << <<"Nouveau contenu partage sur LinkedIn", "">> >>, truncated |-> FALSE],
     [text |-> << <<"Nouvelle publication professionnelle partagee recemment", "">> >>, truncated |-> FALSE]}

\* C19 (as stated): a fragment that is a deny-listed phrase does not validate
\* as post content; a profile whose fetched body holds nothing but such
\* fragments contributes no post to all_new_posts; and every post of
\* all_new_posts has a title and a description that are not the generic ones.
C19_NoBoilerplateNoPlaceholder ==
    /\ \A f \in DOMAIN Fragments :
          Fragments[f].noise => ~is_authentic_post_content(Fragments[f])
    /\ \A n \in 1..Len(all_new_posts) :
          /\ remote[all_new_posts[n].profile_name] # "noise"
          /\ all_new_posts[n].post_title \notin GenericTitles
          /\ all_new_posts[n].post_description \notin GenericDescriptions

\* C20 (as stated): whatever replies the fetches of a checked profile meet,
\* the check makes at most MaxUrls * Strategies of them and ends with an
\* outcome, and when no fetch gave a page the outcome is the failure.
C20_BoundedFetchesThenFailure ==
    \A k \in 1..Len(outcome) :
        outcome[k].kind # "Skipped" =>
            \A s \in ScriptsOf[profiles[k].url.kind][remote[outcome[k].name]] :
                LET l == check_urls_loop(generate_smart_urls(profiles[k].url), 1, s, 0)
                IN  /\ l.gets <= MaxUrls * Strategies
                    /\ outcome[k].kind \in {"Changed", "Unchanged", "Failed"}
                    /\ l.detection_failed => outcome[k].kind = "Failed"

\* C21 (as stated): when a fetch of a checked profile is answered with status
\* 999, that fetch is the last one the check makes, and the outcome of the
\* profile is the failure.
C21_HardRejectionStopsFetching ==
    \A k \in 1..Len(outcome) :
        outcome[k].kind # "Skipped" =>
            \A s \in ScriptsOf[profiles[k].url.kind][remote[outcome[k].name]] :
                LET l == check_urls_loop(generate_smart_urls(profiles[k].url), 1, s, 0)
                IN  \A g \in 1..l.gets :
                        (~s[g].raises /\ s[g].status = 999) =>
                            /\ l.gets = g
                            /\ outcome[k].kind = "Failed"

\* The URLs _generate_smart_urls knows variants of: the /company/ and /in/
\* addresses.
AcceptedUrl(url) == url.kind \in {"company", "in"}

\* C22 (as stated): every profile a run has loaded has a name and a URL of
\* an accepted form, so that no check fetches another URL; the rows that
\* lack one are not loaded.
C22_OnlyWellFormedTargets ==
    run > 0 =>
        \A k \in 1..Len(loaded) :
            /\ loaded[k].name # ""
            /\ AcceptedUrl(loaded[k].url)

\* C23 (as stated): a checked profile whose page was fetched and gave no
\* authentic post, and whose fingerprint without posts differs from the stored
\* one, is classified Changed, has the new fingerprint and an error count of
\* 0, and has no post in all_new_posts.
C23_ChangedWithoutItems ==
    \A k \in 1..Len(outcome) :
        LET o == outcome[k]
            fp == IF Returned(o) THEN o.hash
                  ELSE generate_intelligent_hash(<<>>, o.name, now)
        IN  (/\ o.kind # "Skipped"
             /\ remote[o.name] = "noise"
             /\ o.fault \in {"none", "generate"}
             /\ fp # o.before) =>
                /\ o.kind = "Changed"
                /\ profiles[k].last_post_id = fp
                /\ profiles[k].error_count = 0
                /\ \A n \in 1..Len(all_new_posts) : all_new_posts[n].profile_name # o.name

\* C24 (as stated): the authentic posts of a checked profile all come from
\* the matches of one pattern of authentic_patterns, the first in order that
\* has a match that validates.
C24_SingleWinningPattern ==
    \A k \in 1..Len(outcome) :
        LET o == outcome[k]
            html == remote[o.name]
        IN  (Returned(o) /\ html # "failed" /\ o.fault = "none") =>
                LET picked == picked_matches(html)
                    validating == {j \in 1..Len(authentic_matches(html)) :
                        is_authentic_post_content(
                            Fragments[authentic_matches(html)[j].frag])}
                IN  \A n \in 1..Len(picked) :
                        /\ pattern_of(html, picked[n]) = pattern_of(html, picked[1])
                        /\ \A j \in validating :
                              pattern_of(html, picked[n]) <= pattern_of(html, j)

C26_FailureCountPersisted ==
    pc = "done" =>
        \A k \in 1..Len(outcome) :
            outcome[k].kind = "Failed" =>
                \E n \in 1..Len(csv_file.rows) :
                    /\ csv_file.rows[n].name = outcome[k].name
                    /\ csv_file.rows[n].error_count = loaded[k].error_count + 1

\* C27 (as stated): when the next run starts after a run that has written
\* the new fingerprint of a Changed profile to the store, the posts of that
\* profile were in a notification the run sent with success, or the run that
\* starts computes another fingerprint for the same posts and detects them
\* again.
C27_StoredFingerprintWasDelivered ==
    [][(pc \in {"done", "killed"} /\ run' = run + 1) =>
        \A k \in 1..Len(outcome) :
            (/\ outcome[k].kind = "Changed"
             /\ \E m \in 1..Len(io) : io[m] = [op |-> "write", phase |-> "end"]
             /\ k <= Len(csv_file.rows)
             /\ csv_file.rows[k].name = outcome[k].name
             /\ csv_file.rows[k].last_post_id = outcome[k].hash) =>
                \/ \E n \in 1..Len(sends) :
                      /\ sends[n].returned
                      /\ Range(outcome[k].posts_data) \subseteq Range(sends[n].items)
                \/ generate_intelligent_hash(outcome[k].posts_data, outcome[k].name, now')
                      # outcome[k].hash]_vars

\* C28 (as stated): the step that loads the profiles leaves an existing
\* store as it is, and writes the defaults only when there is no store.
C28_LoadLeavesStore ==
    [][run' = run + 1 =>
        /\ csv_file.exists => csv_file' = csv_file
        /\ (\E m \in 1..Len(io') : io'[m] = [op |-> "write", phase |-> "load"])
              => ~csv_file.exists]_vars

\* C29: in a run, all_new_posts holds posts exactly when a profile was
\* classified Changed, which is when stats.changes is positive; once the loop
\* is left the store was written at the end of the run exactly in that case,
\* and once the notification step is passed a send was made exactly in that
\* case.
C29_SendAndSaveIffChanged ==
    LET changed == \E k \in 1..Len(outcome) : outcome[k].kind = "Changed"
        written == \E m \in 1..Len(io) : io[m] = [op |-> "write", phase |-> "end"]
    IN  /\ all_new_posts # <<>> <=> changed
        /\ stats.changes > 0 <=> changed
        /\ changes_made <=> changed
        /\ pc \in {"notify", "report", "done"} => (written <=> changed)
        /\ pc \in {"report", "done"} => (sends # <<>> <=> changed)
        /\ (pc = "loop" /\ ~loop_done) => ~written /\ sends = <<>>

\* C29 witness: a finished run with a send and a write, in which one profile
\* was Changed and another Unchanged.
C29_Witness ==
    /\ pc = "done"
    /\ Len(sends) = 1
    /\ \E m \in 1..Len(io) : io[m] = [op |-> "write", phase |-> "end"]
    /\ \E j, k \in 1..Len(outcome) :
         outcome[j].kind = "Changed" /\ outcome[k].kind = "Unchanged"

\* The number of profiles of the run whose outcome is of the given kinds.
CountOf(kinds) == Cardinality({k \in 1..Len(outcome) : outcome[k].kind \in kinds})

\* The number of posts of the first n outcomes of the run that are
\* classified Changed.
CountOfChangedItems ==
    LET g[n \in 0..Len(outcome)] ==
            IF n = 0 THEN 0
            ELSE g[n - 1] + (IF outcome[n].kind = "Changed"
                             THEN Len(outcome[n].posts_data) ELSE 0)
    IN  g

====
